---- MODULE Spec2Model ----
\* Model of synkafka's Broker (src/src/broker.cpp): the connection life cycle,
\* the in-flight queue, the writer and the response-framing reader, all run as
\* handlers of one strand, plus the user threads that call wait_for_connect,
\* call and close.
EXTENDS Integers, Sequences, FiniteSets, TLC

\* ---------------------------------------------------------------- bounds
MaxReq == 2          \* number of call() submissions (request ids 1..MaxReq)
NumThreads == 2      \* user threads calling wait_for_connect
NumEndpoints == 2    \* endpoints the resolver returns
MaxBody == 1         \* largest response body length K the server sends

Reqs == 1..MaxReq
Threads == 1..NumThreads
BodyLens == 0..MaxBody

\* ---------------------------------------------------------------- constants
StateInit == "StateInit"
StateConnecting == "StateConnecting"
StateConnected == "StateConnected"
StateClosed == "StateClosed"
ConnStates == {StateInit, StateConnecting, StateConnected, StateClosed}

RespHandlerStateIdle == "RespHandlerStateIdle"
RespHandlerStateReadHeader == "RespHandlerStateReadHeader"
RespHandlerStateReadResp == "RespHandlerStateReadResp"

no_error == "no_error"
network_fail == "network_fail"
network_timeout == "network_timeout"

HeaderSize == 8      \* sizeof(int32_t) + sizeof(int32_t)
CorrSize == 4        \* sizeof(h.correlation_id)
FirstCorrelationId == 1
BadCorrelationId == FirstCorrelationId + MaxReq   \* an id no request of a run carries

VARIABLES
    connection_state_,        \* Broker::connection_state_
    socket_,                  \* TRUE iff socket_ is open
    in_flight_,               \* Seq of [id, correlation_id, sent]
    next_correlation_id_,
    response_handler_state_,
    header_buffer_,           \* [len, corr]: the 8 staged bytes, decoded
    response_buffer_,         \* size of the body buffer, -1 while unallocated
    promise,                  \* per request: state of response_promise
    set_calls,                \* per request: number of set_value/set_exception calls
    strand_,                  \* FIFO of handlers posted to / wrapped by the strand
    resolver_,                \* TRUE iff an async_resolve is outstanding
    connect_op,               \* the outstanding async_connect, if any
    writes,                   \* outstanding async_write operations, in issue order
    reads,                    \* outstanding async_read operations, in issue order
    stream,                   \* response bytes the server has sent, not yet read
    pc, ret,                  \* per thread: position in / result of wait_for_connect
    submitted,                \* number of call() invocations so far
    encode_ok,                \* whether header_encoder.io(req->header) succeeds
    thrown,                   \* exceptions that escaped a handler
    hist                      \* history: [timeline, late, issued] (see Init)

vars == <<connection_state_, socket_, in_flight_, next_correlation_id_,
          response_handler_state_, header_buffer_, response_buffer_, promise,
          set_calls, strand_, resolver_, connect_op, writes, reads, stream,
          pc, ret, submitted, encode_ok, thrown, hist>>

\* ---------------------------------------------------------------- helpers
\* A handler queued on the strand.
Handler(h, req, ec, n) == [h |-> h, req |-> req, ec |-> ec, n |-> n]

\* socket_.close(): every outstanding operation on the socket is cancelled and
\* will complete with operation_aborted.
Cancel(ops) == [i \in DOMAIN ops |-> [ops[i] EXCEPT !.aborted = TRUE]]

is_connected == connection_state_ = StateConnected
is_closed == connection_state_ = StateClosed

\* Broker::Broker
Init ==
    /\ connection_state_ = StateInit
    /\ socket_ = FALSE
    /\ in_flight_ = <<>>
    /\ next_correlation_id_ = FirstCorrelationId
    /\ response_handler_state_ = RespHandlerStateIdle
    /\ header_buffer_ = [len |-> 0, corr |-> 0]
    /\ response_buffer_ = -1
    /\ promise = [r \in Reqs |-> "unused"]
    /\ set_calls = [r \in Reqs |-> 0]
    /\ strand_ = <<>>
    /\ resolver_ = FALSE
    /\ connect_op = [active |-> FALSE, aborted |-> FALSE, remaining |-> 0]
    /\ writes = <<>>
    /\ reads = <<>>
    /\ stream = <<>>
    /\ pc = [t \in Threads |-> "idle"]
    /\ ret = [t \in Threads |-> "none"]
    /\ submitted = 0
    /\ encode_ok \in BOOLEAN
    /\ thrown = {}
    /\ hist = [timeline |-> "none",   \* "timed_out" once a wait expired, then
                                    \* "closed_after_timeout" once close() ran
                late |-> {},           \* threads whose current wait_for_connect
                                    \* began after that close()
                issued |-> <<>>]       \* requests handed to async_write, in order

\* ---------------------------------------------------------------- close()
\* Broker::close, as a fragment shared by every caller: a second close returns
\* at once; otherwise the socket is shut down and closed (cancelling what is
\* outstanding on it) and the state becomes Closed.
close ==
    IF is_closed
    THEN UNCHANGED <<connection_state_, socket_, connect_op, writes, reads, hist>>
    ELSE /\ connection_state_' = StateClosed
         /\ socket_' = FALSE
         /\ connect_op' = [connect_op EXCEPT !.aborted = connect_op.active]
         /\ writes' = Cancel(writes)
         /\ reads' = Cancel(reads)
         /\ hist' = [hist EXCEPT !.timeline = IF @ = "timed_out"
                                             THEN "closed_after_timeout" ELSE @]

\* A user thread (or the destructor) calls close().
Close ==
    /\ ~is_closed
    /\ close
    /\ UNCHANGED <<in_flight_, next_correlation_id_, response_handler_state_,
                   header_buffer_, response_buffer_, promise, set_calls, strand_,
                   resolver_, stream, pc, ret, submitted, encode_ok, thrown>>

\* ---------------------------------------------------------------- wait_for_connect
\* What wait_for_connect returns once the condition variable's predicate
\* (connection_state_ != StateConnecting) holds.
MutWaitResult(state) == no_error
WaitResult(state) == IF state = StateClosed THEN network_fail ELSE no_error

\* A thread calls wait_for_connect (it has not taken the mutex yet).
WfcCall(t) ==
    /\ pc[t] = "idle"
    /\ pc' = [pc EXCEPT ![t] = "enter"]
    /\ ret' = [ret EXCEPT ![t] = "none"]
    /\ hist' = [hist EXCEPT !.late = IF hist.timeline = "closed_after_timeout"
                                     THEN @ \cup {t} ELSE @ \ {t}]
    /\ UNCHANGED <<connection_state_, socket_, in_flight_, next_correlation_id_,
                   response_handler_state_, header_buffer_, response_buffer_,
                   promise, set_calls, strand_, resolver_, connect_op, writes,
                   reads, stream, submitted, encode_ok, thrown>>

\* The switch on connection_state_ with the StateInit case not recording that
\* the connection attempt has started.
MutWfcEnter(t) ==
    /\ pc[t] = "enter"
    /\ pc' = [pc EXCEPT ![t] = CASE connection_state_ = StateInit -> "start"
                                 [] connection_state_ = StateConnecting -> "wait"
                                 [] OTHER -> "idle"]
    /\ ret' = [ret EXCEPT ![t] = CASE connection_state_ = StateConnected -> no_error
                                   [] connection_state_ = StateClosed -> network_fail
                                   [] OTHER -> @]
    /\ UNCHANGED <<connection_state_, socket_, in_flight_, next_correlation_id_,
                   response_handler_state_, header_buffer_, response_buffer_,
                   promise, set_calls, strand_, resolver_, connect_op, writes,
                   reads, stream, submitted, encode_ok, thrown, hist>>

\* The switch on connection_state_, under the mutex.
WfcEnter(t) ==
    /\ pc[t] = "enter"
    /\ CASE connection_state_ = StateConnected ->
              /\ ret' = [ret EXCEPT ![t] = no_error]
              /\ pc' = [pc EXCEPT ![t] = "idle"]
              /\ UNCHANGED connection_state_
         [] connection_state_ = StateClosed ->
              /\ ret' = [ret EXCEPT ![t] = network_fail]
              /\ pc' = [pc EXCEPT ![t] = "idle"]
              /\ UNCHANGED connection_state_
         [] connection_state_ = StateConnecting ->
              /\ pc' = [pc EXCEPT ![t] = "wait"]
              /\ UNCHANGED <<ret, connection_state_>>
         [] connection_state_ = StateInit ->
              /\ connection_state_' = StateConnecting
              /\ pc' = [pc EXCEPT ![t] = "start"]
              /\ UNCHANGED ret
    /\ UNCHANGED <<socket_, in_flight_, next_correlation_id_,
                   response_handler_state_, header_buffer_, response_buffer_,
                   promise, set_calls, strand_, resolver_, connect_op, writes,
                   reads, stream, submitted, encode_ok, thrown, hist>>

\* StateInit case after lk.unlock(): async_resolve, then the recursive call.
WfcStartResolve(t) ==
    /\ pc[t] = "start"
    /\ resolver_' = TRUE
    /\ pc' = [pc EXCEPT ![t] = "enter"]
    /\ UNCHANGED <<connection_state_, socket_, in_flight_, next_correlation_id_,
                   response_handler_state_, header_buffer_, response_buffer_,
                   promise, set_calls, strand_, connect_op, writes, reads,
                   stream, ret, submitted, encode_ok, thrown, hist>>

\* connection_cv_.wait_for returns true: the predicate holds, mutex re-taken.
WfcWake(t) ==
    /\ pc[t] = "wait"
    /\ connection_state_ # StateConnecting
    /\ ret' = [ret EXCEPT ![t] = WaitResult(connection_state_)]
    /\ pc' = [pc EXCEPT ![t] = "idle"]
    /\ UNCHANGED <<connection_state_, socket_, in_flight_, next_correlation_id_,
                   response_handler_state_, header_buffer_, response_buffer_,
                   promise, set_calls, strand_, resolver_, connect_op, writes,
                   reads, stream, submitted, encode_ok, thrown, hist>>

\* connection_cv_.wait_for returns false: timed out with the state still
\* StateConnecting.
WfcTimeout(t) ==
    /\ pc[t] = "wait"
    /\ connection_state_ = StateConnecting
    /\ ret' = [ret EXCEPT ![t] = network_timeout]
    /\ pc' = [pc EXCEPT ![t] = "idle"]
    /\ hist' = [hist EXCEPT !.timeline = IF @ = "none" THEN "timed_out" ELSE @]
    /\ UNCHANGED <<connection_state_, socket_, in_flight_, next_correlation_id_,
                   response_handler_state_, header_buffer_, response_buffer_,
                   promise, set_calls, strand_, resolver_, connect_op, writes,
                   reads, stream, submitted, encode_ok, thrown>>

\* ---------------------------------------------------------------- call()
\* Broker::call: make the request and its promise, post push_request.
Call ==
    /\ submitted < MaxReq
    /\ submitted' = submitted + 1
    /\ promise' = [promise EXCEPT ![submitted + 1] = "pending"]
    /\ strand_' = Append(strand_, Handler("push_request", submitted + 1, FALSE, 0))
    /\ UNCHANGED <<connection_state_, socket_, in_flight_, next_correlation_id_,
                   response_handler_state_, header_buffer_, response_buffer_,
                   set_calls, resolver_, connect_op, writes, reads, stream, pc,
                   ret, encode_ok, thrown, hist>>

\* ---------------------------------------------------------------- I/O completions
\* The resolver finishes; its wrapped handler is queued on the strand.
ResolveComplete(ec) ==
    /\ resolver_
    /\ resolver_' = FALSE
    /\ strand_' = Append(strand_, Handler("handle_resolve", 0, ec, 0))
    /\ UNCHANGED <<connection_state_, socket_, in_flight_, next_correlation_id_,
                   response_handler_state_, header_buffer_, response_buffer_,
                   promise, set_calls, connect_op, writes, reads, stream, pc,
                   ret, submitted, encode_ok, thrown, hist>>

\* The async_connect finishes (a cancelled one only with an error).
ConnectComplete(ec) ==
    /\ connect_op.active
    /\ connect_op.aborted => ec
    /\ connect_op' = [connect_op EXCEPT !.active = FALSE, !.aborted = FALSE]
    /\ strand_' = Append(strand_, Handler("handle_connect", 0, ec, connect_op.remaining))
    /\ UNCHANGED <<connection_state_, socket_, in_flight_, next_correlation_id_,
                   response_handler_state_, header_buffer_, response_buffer_,
                   promise, set_calls, resolver_, writes, reads, stream, pc,
                   ret, submitted, encode_ok, thrown, hist>>

\* The frame a server sends for a request with correlation id c:
\* be32(4 + k) || be32(corr) || payload[k], as a header unit and a body unit.
Frame(corr, k) ==
    IF k = 0 THEN << [t |-> "H", corr |-> corr, len |-> CorrSize] >>
    ELSE << [t |-> "H", corr |-> corr, len |-> CorrSize + k],
            [t |-> "B", corr |-> corr, len |-> k] >>

\* The correlation id the server echoes for a request that carried corr.
Echo(corr, honest) == IF honest THEN corr ELSE BadCorrelationId

\* The oldest async_write finishes with an error (always so once cancelled).
WriteFail ==
    /\ writes # <<>>
    /\ writes' = Tail(writes)
    /\ strand_' = Append(strand_, Handler("handle_write", Head(writes).req, TRUE, 0))
    /\ UNCHANGED <<connection_state_, socket_, in_flight_, next_correlation_id_,
                   response_handler_state_, header_buffer_, response_buffer_,
                   promise, set_calls, resolver_, connect_op, reads, stream, pc,
                   ret, submitted, encode_ok, thrown, hist>>

\* The oldest async_write finishes with all bytes written: the request has
\* reached the server, which answers it with a frame of body length k.
WriteComplete(honest, k) ==
    /\ writes # <<>>
    /\ ~Head(writes).aborted
    /\ writes' = Tail(writes)
    /\ strand_' = Append(strand_, Handler("handle_write", Head(writes).req, FALSE, 0))
    /\ stream' = stream \o Frame(Echo(Head(writes).corr, honest), k)
    /\ UNCHANGED <<connection_state_, socket_, in_flight_, next_correlation_id_,
                   response_handler_state_, header_buffer_, response_buffer_,
                   promise, set_calls, resolver_, connect_op, reads, pc, ret,
                   submitted, encode_ok, thrown, hist>>

\* The oldest async_read finishes with an error.
ReadFail ==
    /\ reads # <<>>
    /\ reads' = Tail(reads)
    /\ strand_' = Append(strand_, Handler("response_handler_actor", 0, TRUE, 0))
    /\ UNCHANGED <<connection_state_, socket_, in_flight_, next_correlation_id_,
                   response_handler_state_, header_buffer_, response_buffer_,
                   promise, set_calls, resolver_, connect_op, writes, stream, pc,
                   ret, submitted, encode_ok, thrown, hist>>

\* The oldest async_read finishes with all its bytes: an 8-byte read takes the
\* next header off the stream into header_buffer_, a body read the body.
ReadComplete ==
    /\ reads # <<>>
    /\ ~Head(reads).aborted
    /\ stream # <<>>
    /\ LET op == Head(reads)
           u == Head(stream)
       IN /\ \/ op.kind = "header" /\ u.t = "H"
             \/ op.kind = "body" /\ u.t = "B" /\ u.len = op.size
          /\ header_buffer_' = IF op.kind = "header"
                               THEN [len |-> u.len, corr |-> u.corr]
                               ELSE header_buffer_
          /\ strand_' = Append(strand_,
                               Handler("response_handler_actor", 0, FALSE, op.size))
    /\ reads' = Tail(reads)
    /\ stream' = Tail(stream)
    /\ UNCHANGED <<connection_state_, socket_, in_flight_, next_correlation_id_,
                   response_handler_state_, response_buffer_, promise, set_calls,
                   resolver_, connect_op, writes, pc, ret, submitted, encode_ok,
                   thrown, hist>>

\* ---------------------------------------------------------------- strand handlers
\* Broker::write_next_request on queue q with outstanding writes w: nothing for
\* an empty queue, a head already sent or a header that does not encode;
\* otherwise one async_write of the head (failing at once on a closed socket).
write_next_request(q, w, open) ==
    IF q = <<>> THEN w
    ELSE IF Head(q).sent THEN w
    ELSE IF ~encode_ok THEN w
    ELSE Append(w, [req |-> Head(q).id, corr |-> Head(q).correlation_id,
                    aborted |-> ~open])

\* The history of requests handed to async_write, after a call of
\* write_next_request that took the outstanding writes from w to w2.
Issued(w, w2) == IF Len(w2) > Len(w)
                 THEN Append(hist.issued, w2[Len(w2)].req)
                 ELSE hist.issued

\* The record push_request puts on the queue for request req: it takes the
\* correlation id handed to it and has not been sent.
MutNewEntry(req, corr) ==
    [id |-> req, correlation_id |-> FirstCorrelationId, sent |-> FALSE]
NewEntry(req, corr) == [id |-> req, correlation_id |-> corr, sent |-> FALSE]

\* Broker::push_request
push_request ==
    /\ strand_ # <<>>
    /\ Head(strand_).h = "push_request"
    /\ LET req == Head(strand_).req IN
       IF is_closed
       THEN \* dropped: the request and its promise are destroyed unfulfilled
            /\ promise' = [promise EXCEPT ![req] = "broken"]
            /\ UNCHANGED <<in_flight_, next_correlation_id_, writes, hist>>
       ELSE LET q == Append(in_flight_, NewEntry(req, next_correlation_id_))
                w == IF is_connected
                     THEN write_next_request(q, writes, socket_)
                     ELSE writes
            IN /\ next_correlation_id_' = next_correlation_id_ + 1
               /\ in_flight_' = q
               /\ writes' = w
               /\ hist' = [hist EXCEPT !.issued = Issued(writes, w)]
               /\ UNCHANGED promise
    /\ strand_' = Tail(strand_)
    /\ UNCHANGED <<connection_state_, socket_, response_handler_state_,
                   header_buffer_, response_buffer_, set_calls, resolver_,
                   connect_op, reads, stream, pc, ret, submitted, encode_ok,
                   thrown>>

\* Broker::handle_resolve
handle_resolve ==
    /\ strand_ # <<>>
    /\ Head(strand_).h = "handle_resolve"
    /\ IF Head(strand_).ec
       THEN close
       ELSE \* async_connect to the first endpoint (opens the socket if needed)
            /\ connect_op' = [active |-> TRUE, aborted |-> FALSE,
                              remaining |-> NumEndpoints - 1]
            /\ socket_' = TRUE
            /\ UNCHANGED <<connection_state_, writes, reads, hist>>
    /\ strand_' = Tail(strand_)
    /\ UNCHANGED <<in_flight_, next_correlation_id_, response_handler_state_,
                   header_buffer_, response_buffer_, promise, set_calls,
                   resolver_, stream, pc, ret, submitted, encode_ok, thrown>>

\* endpoint_iterator != tcp::resolver::iterator(): n endpoints are left to try.
MutEndpointsRemain(n) == FALSE
EndpointsRemain(n) == n > 0

\* Broker::handle_connect
handle_connect ==
    /\ strand_ # <<>>
    /\ Head(strand_).h = "handle_connect"
    /\ LET h == Head(strand_) IN
       IF ~h.ec
       THEN /\ connection_state_' = StateConnected
            /\ writes' = write_next_request(in_flight_, writes, socket_)
            /\ hist' = [hist EXCEPT !.issued =
                           Issued(writes, write_next_request(in_flight_, writes, socket_))]
            /\ UNCHANGED <<socket_, connect_op, reads>>
       ELSE IF EndpointsRemain(h.n)
       THEN \* socket_.close(), then async_connect to the next endpoint
            /\ connect_op' = [active |-> TRUE, aborted |-> FALSE,
                              remaining |-> h.n - 1]
            /\ socket_' = TRUE
            /\ writes' = Cancel(writes)
            /\ reads' = Cancel(reads)
            /\ UNCHANGED <<connection_state_, hist>>
       ELSE close
    /\ strand_' = Tail(strand_)
    /\ UNCHANGED <<in_flight_, next_correlation_id_, response_handler_state_,
                   header_buffer_, response_buffer_, promise, set_calls,
                   resolver_, stream, pc, ret, submitted, encode_ok, thrown>>

\* req->sent = true with req = in_flight_.begin(): the head is marked sent.
MutMarkSent(q) == [q EXCEPT ![Len(q)].sent = TRUE]
MarkSent(q) == [q EXCEPT ![1].sent = TRUE]

\* Broker::handle_write. set_exception on a promise that is already satisfied
\* throws std::future_error out of the handler, before pop_front.
handle_write ==
    /\ strand_ # <<>>
    /\ Head(strand_).h = "handle_write"
    /\ LET h == Head(strand_)
           rest == Tail(strand_)
       IN IF in_flight_ = <<>>
          THEN /\ strand_' = rest
               /\ UNCHANGED <<in_flight_, promise, set_calls, thrown>>
          ELSE LET req == Head(in_flight_) IN
               IF h.ec
               THEN /\ set_calls' = [set_calls EXCEPT ![req.id] = IF @ < 2 THEN @ + 1 ELSE @]
                    /\ strand_' = rest
                    /\ IF promise[req.id] = "pending"
                       THEN /\ promise' = [promise EXCEPT ![req.id] = "exception"]
                            /\ in_flight_' = Tail(in_flight_)
                            /\ UNCHANGED thrown
                       ELSE /\ thrown' = thrown \cup {"future_error"}
                            /\ UNCHANGED <<promise, in_flight_>>
               ELSE /\ in_flight_' = MarkSent(in_flight_)
                    /\ strand_' = IF response_handler_state_ = RespHandlerStateIdle
                                  THEN Append(rest, Handler("response_handler_actor",
                                                            0, FALSE, 0))
                                  ELSE rest
                    /\ UNCHANGED <<promise, set_calls, thrown>>
    /\ UNCHANGED <<connection_state_, socket_, next_correlation_id_,
                   response_handler_state_, header_buffer_, response_buffer_,
                   resolver_, connect_op, writes, reads, stream, pc, ret,
                   submitted, encode_ok, hist>>

\* req->response_promise.set_exception(...); close(); return;  -- the failure
\* path of response_handler_actor. A promise already satisfied makes
\* set_exception throw, so close() is not reached.
FailHeadAndClose ==
    LET r == Head(in_flight_).id IN
    /\ set_calls' = [set_calls EXCEPT ![r] = IF @ < 2 THEN @ + 1 ELSE @]
    /\ IF promise[r] = "pending"
       THEN /\ promise' = [promise EXCEPT ![r] = "exception"]
            /\ close
            /\ UNCHANGED thrown
       ELSE /\ thrown' = thrown \cup {"future_error"}
            /\ UNCHANGED <<promise, connection_state_, socket_, connect_op,
                           writes, reads, hist>>

\* An async_read of `size` bytes issued on the socket.
ReadOp(kind, size) == [kind |-> kind, size |-> size, aborted |-> ~socket_]

\* Whether the header just staged belongs to the head request.
MutCorrelationMatches(req, hdr) == TRUE
CorrelationMatches(req, hdr) == req.correlation_id = hdr.corr

\* Whether, after the head was popped, the reader goes straight back to
\* reading the next response.
ReadsOn(q) == q # <<>> /\ Head(q).sent

\* Broker::response_handler_actor
response_handler_actor ==
    /\ strand_ # <<>>
    /\ Head(strand_).h = "response_handler_actor"
    /\ strand_' = Tail(strand_)
    /\ LET h == Head(strand_) IN
       IF ~is_connected \/ in_flight_ = <<>>
       THEN UNCHANGED <<connection_state_, socket_, in_flight_,
                        response_handler_state_, response_buffer_, promise,
                        set_calls, connect_op, writes, reads, thrown, hist>>
       ELSE IF h.ec
       THEN /\ FailHeadAndClose
            /\ UNCHANGED <<in_flight_, response_handler_state_, response_buffer_>>
       ELSE IF response_handler_state_ = RespHandlerStateIdle
       THEN /\ response_handler_state_' = RespHandlerStateReadHeader
            /\ reads' = Append(reads, ReadOp("header", HeaderSize))
            /\ UNCHANGED <<connection_state_, socket_, in_flight_,
                           response_buffer_, promise, set_calls, connect_op,
                           writes, thrown, hist>>
       ELSE IF response_handler_state_ = RespHandlerStateReadHeader
       THEN /\ response_handler_state_' = RespHandlerStateReadResp
            /\ IF ~CorrelationMatches(Head(in_flight_), header_buffer_)
               THEN /\ FailHeadAndClose
                    /\ UNCHANGED <<in_flight_, response_buffer_>>
               ELSE LET response_len == header_buffer_.len - CorrSize IN
                    /\ response_buffer_' = response_len
                    /\ IF response_len = 0
                       THEN \* response_buffer_->at(0) on an empty vector throws
                            /\ thrown' = thrown \cup {"out_of_range"}
                            /\ UNCHANGED reads
                       ELSE /\ reads' = Append(reads, ReadOp("body", response_len))
                            /\ UNCHANGED thrown
                    /\ UNCHANGED <<connection_state_, socket_, in_flight_,
                                   promise, set_calls, connect_op, writes,
                                   hist>>
       ELSE \* RespHandlerStateReadResp
            IF h.n < response_buffer_
            THEN /\ response_handler_state_' = RespHandlerStateIdle
                 /\ FailHeadAndClose
                 /\ UNCHANGED <<in_flight_, response_buffer_>>
            ELSE LET r == Head(in_flight_).id
                     q == Tail(in_flight_)
                 IN /\ set_calls' = [set_calls EXCEPT ![r] = IF @ < 2 THEN @ + 1 ELSE @]
                    /\ IF promise[r] = "pending"
                       THEN /\ promise' = [promise EXCEPT ![r] = "value"]
                            /\ in_flight_' = q
                            /\ UNCHANGED thrown
                            /\ IF ReadsOn(q)
                               THEN \* response_handler_actor(ec, 0): Idle -> ReadHeader
                                    /\ response_handler_state_' = RespHandlerStateReadHeader
                                    /\ reads' = Append(reads, ReadOp("header", HeaderSize))
                               ELSE /\ response_handler_state_' = RespHandlerStateIdle
                                    /\ UNCHANGED reads
                       ELSE /\ thrown' = thrown \cup {"future_error"}
                            /\ response_handler_state_' = RespHandlerStateIdle
                            /\ UNCHANGED <<promise, in_flight_, reads>>
                    /\ UNCHANGED <<connection_state_, socket_, response_buffer_,
                                   connect_op, writes, hist>>
    /\ UNCHANGED <<next_correlation_id_, header_buffer_, resolver_, stream, pc,
                   ret, submitted, encode_ok>>

\* ---------------------------------------------------------------- specification
Next ==
    \/ \E t \in Threads : WfcCall(t)
    \/ \E t \in Threads : WfcEnter(t)
    \/ \E t \in Threads : WfcStartResolve(t)
    \/ \E t \in Threads : WfcWake(t)
    \/ \E t \in Threads : WfcTimeout(t)
    \/ Close
    \/ Call
    \/ \E ec \in BOOLEAN : ResolveComplete(ec)
    \/ \E ec \in BOOLEAN : ConnectComplete(ec)
    \/ WriteFail
    \/ \E honest \in BOOLEAN, k \in BodyLens : WriteComplete(honest, k)
    \/ ReadFail
    \/ ReadComplete
    \/ push_request
    \/ handle_resolve
    \/ handle_connect
    \/ handle_write
    \/ response_handler_actor

Spec == Init /\ [][Next]_vars

\* The connection life cycle alone: any number of wait_for_connect callers,
\* close() at any time, the resolve and connect completions and their
\* handlers; no request is submitted.
ConnNext ==
    \/ \E t \in Threads : WfcCall(t)
    \/ \E t \in Threads : WfcEnter(t)
    \/ \E t \in Threads : WfcStartResolve(t)
    \/ \E t \in Threads : WfcWake(t)
    \/ \E t \in Threads : WfcTimeout(t)
    \/ Close
    \/ \E ec \in BOOLEAN : ResolveComplete(ec)
    \/ \E ec \in BOOLEAN : ConnectComplete(ec)
    \/ handle_resolve
    \/ handle_connect

ConnSpec == Init /\ [][ConnNext]_vars

\* The request path with a single thread driving wait_for_connect: every
\* operation of Next, the other threads never calling.
Driver == CHOOSE t \in Threads : \A u \in Threads : t <= u

ReqNext ==
    \/ WfcCall(Driver)
    \/ WfcEnter(Driver)
    \/ WfcStartResolve(Driver)
    \/ WfcWake(Driver)
    \/ WfcTimeout(Driver)
    \/ Close
    \/ Call
    \/ \E ec \in BOOLEAN : ResolveComplete(ec)
    \/ \E ec \in BOOLEAN : ConnectComplete(ec)
    \/ WriteFail
    \/ \E honest \in BOOLEAN, k \in BodyLens : WriteComplete(honest, k)
    \/ ReadFail
    \/ ReadComplete
    \/ push_request
    \/ handle_resolve
    \/ handle_connect
    \/ handle_write
    \/ response_handler_actor

ReqSpec == Init /\ [][ReqNext]_vars

\* ---------------------------------------------------------------- properties
Fulfilled == {"value", "exception"}
Resolved == {"value", "exception", "broken"}
Range(f) == {f[i] : i \in DOMAIN f}

\* The step runs the handler `name` from the front of the strand.
HandlerRan(name) ==
    /\ strand_ # <<>>
    /\ Head(strand_).h = name
    /\ strand_' # strand_
    /\ Len(strand_') <= Len(strand_)

\* Thread t's wait_for_connect returns in this step.
Returns(t) == ret[t] = "none" /\ ret'[t] # "none"

\* C1: every request's result slot is fulfilled at most once: no request ever
\* sees a second set_value / set_exception on its promise.
C1_ResolvesOnce == \A r \in Reqs : set_calls[r] <= 1

\* C3: the connection state changes only along Init->Connecting,
\* Connecting->Connected and {Init, Connecting, Connected}->Closed, so Closed
\* is terminal.
AllowedTransitions ==
    {<<StateInit, StateConnecting>>, <<StateConnecting, StateConnected>>,
     <<StateInit, StateClosed>>, <<StateConnecting, StateClosed>>,
     <<StateConnected, StateClosed>>}
C3_ClosedIsTerminal ==
    [][connection_state_' # connection_state_
         => <<connection_state_, connection_state_'>> \in AllowedTransitions]_vars

\* C4: the writer never pipelines and writes in queue order: at most one
\* async_write is outstanding, and a request is handed to the socket only
\* when no write is outstanding, at most once, after every request before it.
C4_WriterNeverPipelines ==
    /\ [](Len(writes) <= 1)
    /\ [][hist.issued' # hist.issued
            => /\ writes = <<>>
               /\ \A i \in DOMAIN hist.issued :
                     hist.issued[i] < hist.issued'[Len(hist.issued')]]_vars

\* C5: whenever a result slot is fulfilled with a decoded response, the
\* correlation id staged from that response's header is the correlation id of
\* the request owning the slot.
C5_ResponseMatchesRequest ==
    [][\A r \in Reqs :
         (promise[r] # "value" /\ promise'[r] = "value")
            => \E i \in DOMAIN in_flight_ :
                  /\ in_flight_[i].id = r
                  /\ in_flight_[i].correlation_id = header_buffer_.corr]_vars

\* C6: handles resolve in submission order: no handle resolves (response,
\* failure or broken promise) while an earlier-submitted one is unresolved.
C6_ResolutionOrder ==
    [][\A r \in Reqs :
         (promise[r] \notin Resolved /\ promise'[r] \in Resolved)
            => \A r2 \in Reqs : r2 < r => promise[r2] \in Resolved]_vars

\* C7: wait_for_connect returns no_error only in a step that leaves the
\* connection state Connected.
C7_OkOnlyWhenConnected ==
    [][\A t \in Threads :
         (Returns(t) /\ ret'[t] = no_error)
            => connection_state_' = StateConnected]_vars

\* C7 witness: one caller timed out while the connect was pending and another
\* caller was woken with no_error once it completed.
C7_Witness ==
    \E t, u \in Threads :
       /\ ret[t] = no_error
       /\ ret[u] = network_timeout
       /\ is_connected

\* The handler at the front of the strand is a read completion (or a kick)
\* that reports a failed read: an error code, a staged header whose
\* correlation id is not the head request's, or fewer body bytes than asked.
ReadFailure ==
    \/ Head(strand_).ec
    \/ /\ in_flight_ # <<>>
       /\ response_handler_state_ = RespHandlerStateReadHeader
       /\ Head(in_flight_).correlation_id # header_buffer_.corr
    \/ /\ response_handler_state_ = RespHandlerStateReadResp
       /\ Head(strand_).n < response_buffer_

\* No resolve or connect is outstanding, queued or about to be started.
ConnectChainOver ==
    /\ ~resolver_
    /\ ~connect_op.active
    /\ \A i \in DOMAIN strand_ :
          strand_[i].h \notin {"handle_resolve", "handle_connect"}
    /\ \A t \in Threads : pc[t] # "start"

\* C8 as stated: whenever the reader handles a read completion that carries an
\* error, a header whose correlation id differs from the head request's, or a
\* short body read, the head request's handle is resolved with a failure and
\* the connection state becomes Closed.
C8_Original ==
    [][(HandlerRan("response_handler_actor") /\ ReadFailure)
         => /\ connection_state_' = StateClosed
            /\ in_flight_ # <<>> => promise'[Head(in_flight_).id] = "exception"]_vars

\* C8 amended: whenever the reader handles such a completion while the
\* connection is Connected and a request is in flight, this step resolves the
\* head request's handle with a failure and sets the state to Closed; from
\* then on the state stays Closed and every wait_for_connect that returns,
\* returns network_fail.
C8_ReadFailuresAreFatal ==
    /\ [][(/\ HandlerRan("response_handler_actor")
           /\ is_connected
           /\ in_flight_ # <<>>
           /\ ReadFailure)
            => /\ promise[Head(in_flight_).id] = "pending"
               /\ promise'[Head(in_flight_).id] = "exception"
               /\ connection_state_' = StateClosed
               /\ ConnectChainOver']_vars
    /\ [][(is_closed /\ ConnectChainOver)
            => /\ connection_state_' = StateClosed
               /\ ConnectChainOver'
               /\ \A t \in Threads : Returns(t) => ret'[t] = network_fail]_vars

\* C8 witness: the server answered the head request with another correlation
\* id; the reader failed the head and closed the connection, and a later
\* wait_for_connect returned network_fail.
C8_Witness ==
    /\ in_flight_ # <<>>
    /\ promise[Head(in_flight_).id] = "exception"
    /\ Head(in_flight_).sent
    /\ header_buffer_.corr = BadCorrelationId
    /\ response_handler_state_ = RespHandlerStateReadResp
    /\ is_closed
    /\ \E t \in Threads : ret[t] = network_fail

\* C9: when handle_write receives an error, the head request is the request
\* whose write failed, its handle is resolved with a failure by this step, it
\* is popped, and the connection state is unchanged.
C9_WriteErrorFailsOnlyHead ==
    [][(/\ HandlerRan("handle_write")
        /\ Head(strand_).ec
        /\ in_flight_ # <<>>)
         => /\ Head(in_flight_).id = Head(strand_).req
            /\ promise[Head(in_flight_).id] = "pending"
            /\ promise'[Head(in_flight_).id] = "exception"
            /\ in_flight_' = Tail(in_flight_)
            /\ connection_state_' = connection_state_]_vars

\* C10: a wait_for_connect that expires returns network_timeout with the
\* state left Connecting, and once close() has been called after such a
\* timeout every wait_for_connect begun afterwards returns network_fail.
C10_TimeoutThenClose ==
    [][\A t \in Threads :
         /\ (Returns(t) /\ ret'[t] = network_timeout)
               => connection_state_' = StateConnecting
         /\ (Returns(t) /\ t \in hist.late)
               => ret'[t] = network_fail]_vars

\* The handler at the front of the strand is the completion of a header read
\* that staged, for the head request, a frame whose body has zero length.
ZeroLengthHeader ==
    /\ is_connected
    /\ in_flight_ # <<>>
    /\ ~Head(strand_).ec
    /\ Head(strand_).n = HeaderSize
    /\ response_handler_state_ = RespHandlerStateReadHeader
    /\ header_buffer_.corr = Head(in_flight_).correlation_id
    /\ header_buffer_.len = CorrSize

\* C11: a response with a zero-length body is valid: when the reader handles
\* the header of such a response for the head request, no error escapes, the
\* head is not failed, the connection stays Connected and the (empty) body
\* read is started, from whose completion the head is fulfilled.
C11_ZeroLengthBodyIsValid ==
    [][(HandlerRan("response_handler_actor") /\ ZeroLengthHeader)
         => /\ thrown' = thrown
            /\ connection_state_' = StateConnected
            /\ promise'[Head(in_flight_).id] = "pending"
            /\ response_handler_state_' = RespHandlerStateReadResp
            /\ reads' = Append(reads, ReadOp("body", 0))]_vars

\* This step calls write_next_request with request r at the head of the
\* queue, not yet sent: from push_request on a Connected broker, or from
\* handle_connect on success.
WriterRanOn(r) ==
    \/ /\ HandlerRan("push_request")
       /\ is_connected
       /\ IF in_flight_ = <<>>
          THEN r = Head(strand_).req
          ELSE r = Head(in_flight_).id /\ ~Head(in_flight_).sent
    \/ /\ HandlerRan("handle_connect")
       /\ ~Head(strand_).ec
       /\ in_flight_ # <<>>
       /\ r = Head(in_flight_).id
       /\ ~Head(in_flight_).sent

\* C12: when the writer runs on a head request whose header does not encode,
\* that request's handle is resolved with a failure and the request is no
\* longer at the head of the queue.
C12_EncodeFailureIsSurfaced ==
    [][\A r \in Reqs :
         (WriterRanOn(r) /\ ~encode_ok)
            => /\ promise'[r] = "exception"
               /\ in_flight_' = <<>> \/ Head(in_flight_').id # r]_vars

\* C13: when the reader fulfils and pops the head and the new head has not
\* been sent, the same step issues the write of the new head.
C13_WriterKickedAfterPop ==
    [][(/\ HandlerRan("response_handler_actor")
        /\ Len(in_flight_) > 1
        /\ promise[Head(in_flight_).id] = "pending"
        /\ promise'[Head(in_flight_).id] = "value"
        /\ ~in_flight_[2].sent
        /\ encode_ok)
         => /\ Len(writes') = Len(writes) + 1
            /\ writes'[Len(writes')].req = in_flight_[2].id]_vars

\* C14: when handle_write fails and pops the head R_a and the next request
\* R_b has not been sent, a write of R_b is outstanding after the step.
C14_WriteFailureMovesOn ==
    [][(/\ HandlerRan("handle_write")
        /\ Head(strand_).ec
        /\ Len(in_flight_) > 1
        /\ in_flight_' = Tail(in_flight_)
        /\ ~in_flight_[2].sent
        /\ encode_ok)
         => \E i \in DOMAIN writes' : writes'[i].req = in_flight_[2].id]_vars

\* C15: in the in-flight queue every sent entry precedes every unsent entry,
\* at most one entry is sent, and a sent entry is the head.
C15_SentOnlyAtHead ==
    /\ \A i, j \in DOMAIN in_flight_ :
          (in_flight_[i].sent /\ ~in_flight_[j].sent) => i < j
    /\ Cardinality({i \in DOMAIN in_flight_ : in_flight_[i].sent}) <= 1
    /\ \A i \in DOMAIN in_flight_ : in_flight_[i].sent => i = 1

\* C15 witness: two requests are queued, the head written and marked sent,
\* the one behind it not yet sent.
C15_Witness ==
    /\ Len(in_flight_) = 2
    /\ in_flight_[1].sent
    /\ ~in_flight_[2].sent
    /\ promise[in_flight_[1].id] = "pending"

\* A handler record of response_handler_actor that is a kick (posted with no
\* error and n = 0) and not the completion of a socket read.
IsKick(h) == ~h.ec /\ h.n = 0

\* The moves of the framing machine; ReadResp -> ReadHeader is the tail call
\* that passes through Idle within one run of the handler.
ReaderTransitions ==
    {<<RespHandlerStateIdle, RespHandlerStateReadHeader>>,
     <<RespHandlerStateReadHeader, RespHandlerStateReadResp>>,
     <<RespHandlerStateReadResp, RespHandlerStateIdle>>,
     <<RespHandlerStateReadResp, RespHandlerStateReadHeader>>}

\* C16: the reader has at most one socket read outstanding, moves only
\* Idle -> ReadHeader -> ReadBody -> Idle, and whenever it acts in ReadHeader or
\* ReadBody it acts on the completion of a read, never on a kick.
C16_ReaderFraming ==
    /\ [](Len(reads) <= 1)
    /\ [][response_handler_state_' # response_handler_state_
            => <<response_handler_state_, response_handler_state_'>>
                  \in ReaderTransitions]_vars
    /\ [][(/\ HandlerRan("response_handler_actor")
           /\ is_connected
           /\ in_flight_ # <<>>
           /\ response_handler_state_ # RespHandlerStateIdle)
            => ~IsKick(Head(strand_))]_vars

\* C17: a thread starts the resolve only after observing Init, in a step that
\* moves the state to Connecting while no other thread is about to start one;
\* the state never returns to Init, and the resolve is started by that thread
\* alone.
C17_SingleAttempt ==
    /\ [][\A t \in Threads :
            (pc[t] # "start" /\ pc'[t] = "start")
               => /\ connection_state_ = StateInit
                  /\ connection_state_' = StateConnecting
                  /\ \A u \in Threads \ {t} : pc'[u] # "start"]_vars
    /\ [][connection_state_ # StateInit => connection_state_' # StateInit]_vars
    /\ [][(~resolver_ /\ resolver_')
            => \E t \in Threads : pc[t] = "start" /\ pc'[t] = "enter"]_vars

\* C17 witness: every thread is inside wait_for_connect, waiting on the
\* condition variable, while the one resolve is outstanding.
C17_Witness ==
    /\ resolver_
    /\ connection_state_ = StateConnecting
    /\ \A t \in Threads : pc[t] = "wait"

\* C18: push_request on a Closed broker leaves the queue, the counter and the
\* outstanding writes alone and the request's promise is destroyed unfulfilled,
\* for good; otherwise it appends the request at the tail with the current
\* counter value as correlation id, unsent, and increments the counter.
C18_PushRequestFrame ==
    /\ [][HandlerRan("push_request")
            => LET req == Head(strand_).req IN
               IF is_closed
               THEN /\ in_flight_' = in_flight_
                    /\ next_correlation_id_' = next_correlation_id_
                    /\ writes' = writes
                    /\ promise'[req] = "broken"
               ELSE /\ in_flight_' = Append(in_flight_,
                                            [id |-> req,
                                             correlation_id |-> next_correlation_id_,
                                             sent |-> FALSE])
                    /\ next_correlation_id_' = next_correlation_id_ + 1]_vars
    /\ [][\A r \in Reqs : promise[r] = "broken" => promise'[r] = "broken"]_vars

\* C18 witness: one request was queued and got its correlation id, the broker
\* was closed, and a later request was dropped.
C18_Witness ==
    /\ is_closed
    /\ in_flight_ # <<>>
    /\ next_correlation_id_ = FirstCorrelationId + Len(in_flight_)
    /\ \E r \in Reqs : promise[r] = "broken"

\* A resolve failure, or a connect failure with no endpoint left, is handled
\* in this step.
ConnectGivesUp ==
    \/ HandlerRan("handle_resolve") /\ Head(strand_).ec
    \/ HandlerRan("handle_connect") /\ Head(strand_).ec /\ Head(strand_).n = 0

\* A connect failure with endpoints left is handled in this step.
ConnectRetries ==
    HandlerRan("handle_connect") /\ Head(strand_).ec /\ Head(strand_).n > 0

\* The connect to the next endpoint is outstanding after the step.
NextEndpointTried ==
    /\ connect_op'.active
    /\ ~connect_op'.aborted
    /\ connect_op'.remaining = Head(strand_).n - 1

\* Giving up closes for good: the state is Closed with no resolve or connect
\* left, no waiter is held back, and from then on the state stays Closed and
\* every wait_for_connect that returns, returns network_fail.
GivingUpCloses ==
    /\ ConnectGivesUp => (connection_state_' = StateClosed /\ ConnectChainOver')
    /\ (is_closed /\ ConnectChainOver)
          => /\ connection_state_' = StateClosed
             /\ ConnectChainOver'
             /\ \A t \in Threads : Returns(t) => ret'[t] = network_fail

\* C19 as stated: a resolve failure or a connect failure on the last endpoint
\* closes the connection and waiters return network_fail; a connect failure
\* with endpoints remaining tries the next endpoint and leaves the state
\* Connecting.
C19_Original ==
    [][/\ GivingUpCloses
       /\ ConnectRetries
             => (NextEndpointTried /\ connection_state_' = StateConnecting)]_vars

\* C19 amended: as above, but a connect failure with endpoints remaining
\* tries the next endpoint and leaves the state as it found it: Connecting,
\* or Closed when close() was called while the connect was pending.
C19_ConnectErrorsClose ==
    [][/\ GivingUpCloses
       /\ ConnectRetries
             => /\ NextEndpointTried
                /\ connection_state_ \in {StateConnecting, StateClosed}
                /\ connection_state_' = connection_state_]_vars

\* C19 witness: the connect to every endpoint but the last has failed, the
\* last one is being tried with the state still Connecting and a caller
\* waiting for it.
C19_Witness ==
    /\ connection_state_ = StateConnecting
    /\ connect_op.active
    /\ connect_op.remaining = 0
    /\ NumEndpoints > 1
    /\ \E t \in Threads : pc[t] = "wait"

\* C20: whenever handle_write acts on the queue head (marks it sent, or fails
\* and pops it), the head is the request whose socket write completed.
C20_SentMeansWritten ==
    [][(HandlerRan("handle_write") /\ in_flight_ # <<>>)
         => Head(in_flight_).id = Head(strand_).req]_vars

\* ---------------------------------------------------------------- liveness
\* The runs of C2: the header encodes, no I/O operation fails, nobody calls
\* close(), no wait expires, requests are submitted once the broker is
\* connected, and the server answers every request it receives with the
\* matching correlation id and a non-empty body.
LiveInit == Init /\ encode_ok

LiveCall == is_connected /\ Call

LiveWriteComplete == \E k \in 1..MaxBody : WriteComplete(TRUE, k)

LiveStrand ==
    \/ push_request
    \/ handle_resolve
    \/ handle_connect
    \/ handle_write
    \/ response_handler_actor

LiveConnect ==
    \/ \E t \in Threads : WfcEnter(t)
    \/ \E t \in Threads : WfcStartResolve(t)
    \/ \E t \in Threads : WfcWake(t)

LiveNext ==
    \/ \E t \in Threads : WfcCall(t)
    \/ LiveConnect
    \/ LiveCall
    \/ ResolveComplete(FALSE)
    \/ ConnectComplete(FALSE)
    \/ LiveWriteComplete
    \/ ReadComplete
    \/ LiveStrand

\* The strand runs every queued handler, every I/O operation completes, every
\* request is submitted and the connect is driven to its end.
LiveSpec ==
    /\ LiveInit
    /\ [][LiveNext]_vars
    /\ WF_vars(LiveStrand)
    /\ WF_vars(ResolveComplete(FALSE))
    /\ WF_vars(ConnectComplete(FALSE))
    /\ WF_vars(LiveWriteComplete)
    /\ WF_vars(ReadComplete)
    /\ WF_vars(LiveCall)
    /\ WF_vars(LiveConnect)
    /\ WF_vars(\E t \in Threads : WfcCall(t))

\* C2: every submitted request is eventually handed to the socket and its
\* handle eventually fulfilled with a response, earlier handles first.
C2_EveryRequestResolves ==
    /\ \A r \in Reqs : <>(r \in Range(hist.issued))
    /\ \A r \in Reqs : <>(promise[r] = "value")
    /\ [](\A r, r2 \in Reqs :
            (r2 < r /\ promise[r] = "value") => promise[r2] = "value")

====
